---- MODULE Spec2Model ----
(***************************************************************************)
(* Model of gax/src/call_option.rs: the jittered exponential Backoff and   *)
(* the BackoffRetryer that decides, from a tonic Status, whether a failed  *)
(* call is retried and after how long.                                     *)
(*                                                                         *)
(* Durations are whole numbers of nanoseconds.  The f64 multiplier is kept *)
(* as a fraction <<num, den>>: for the envelopes of this model (below      *)
(* 2^31 ns) the f64 product `cur_val as f64 * multiplier`, cast to u64,    *)
(* equals the floor of the exact product, and no u64/u128 cast wraps.      *)
(***************************************************************************)
EXTENDS Integers, Sequences, FiniteSets, TLC

VARIABLES
    backoff,                    \* BackoffRetryer.backoff : Backoff
    codes,                      \* BackoffRetryer.codes : Vec<tonic::Code>
    check_session_not_found,    \* BackoffRetryer.check_session_not_found
    op,                         \* the last operation: "new", "duration", "retry"
    status,                     \* the Status handed to the last retry call
    result,                     \* how the last call ended and the Duration it returned
    draws,                      \* number of calls of Backoff::duration that returned
    start,                      \* the Backoff as it was constructed
    clone                       \* the retryer.clone() in use, if one was made

vars ==
    <<backoff, codes, check_session_not_found, op, status, result, draws,
      start, clone>>

(***************************************************************************)
(* Bounds of the model.                                                    *)
(***************************************************************************)
\* Calls of Backoff::duration that return, per retry sequence.
MaxDraws == 20
\* Up to this envelope every value of the jitter is enumerated; above it the
\* smallest, the middle and the largest value of the range are taken.
MaxEnumDraw == 4
\* Calls of Backoff::duration that return, on a clone of the retryer.
MaxCloneDraws == 6

(***************************************************************************)
(* Backoff::default                                                        *)
(***************************************************************************)
DefaultInitial == 250000
DefaultMax == 32000000
DefaultMultiplier == <<13, 10>>

Default ==
    [initial |-> DefaultInitial, max |-> DefaultMax,
     multiplier |-> DefaultMultiplier, cur |-> 0]

(***************************************************************************)
(* Backoff values written as struct literals (all four fields are pub).    *)
(***************************************************************************)
\* <<initial, max>>; the last has max < initial
Envelopes == {<<1, 3>>, <<4, 10>>, <<4, 3>>}
Multipliers == {<<13, 10>>, <<1, 1>>, <<1, 2>>}

Backoff ==
    UNION { { [initial |-> e[1], max |-> e[2], multiplier |-> f, cur |-> c] :
                f \in Multipliers, c \in {0, e[1], 12} } : e \in Envelopes }
    \cup { [Default EXCEPT !.cur = c] : c \in {DefaultInitial, 40000000} }

\* multiplier > 1 and max >= initial
ValidConfig(b) ==
    /\ b.multiplier[1] > b.multiplier[2]
    /\ b.max >= b.initial

(***************************************************************************)
(* tonic::Code and Status                                                  *)
(***************************************************************************)
Code == {"Internal", "Unavailable", "NotFound"}

RST_STREAM == "stream terminated by RST_STREAM"
INTERNAL_ERROR == "HTTP/2 error code: INTERNAL_ERROR"
UNKNOWN_CAUSE == "Connection closed with unknown cause"
UNEXPECTED_EOS == "Received unexpected EOS on DATA frame from server"
SESSION_NOT_FOUND == "Session not found:"

Messages ==
    { "anything", "some unrelated internal failure",
      RST_STREAM, "rpc: " \o INTERNAL_ERROR, UNKNOWN_CAUSE \o ".",
      UNEXPECTED_EOS,
      "Session not found: abc", "Session not found",
      "stream terminated by RST_STREAM, Session not found: abc" }

\* Every message with Internal, the session messages with the other codes.
Status ==
    { st \in [code : Code, message : Messages] :
        \/ st.code = "Internal"
        \/ st.message \in {"anything", "Session not found: abc"}
        \/ st.code = "NotFound" /\ st.message = "Session not found" }

NoStatus == [code |-> "Ok", message |-> ""]

CodeVecs == { <<>>, <<"Unavailable", "Internal">> }

\* str::contains
Contains(s, pat) ==
    \E i \in 1..(Len(s) - Len(pat) + 1) : SubSeq(s, i, i + Len(pat) - 1) = pat

(***************************************************************************)
(* Backoff::duration                                                       *)
(***************************************************************************)
\* rng.gen_range(0..cur_val), for a non-empty range
GenRange(cur_val) ==
    IF cur_val <= MaxEnumDraw
    THEN 0..(cur_val - 1)
    ELSE {0, cur_val \div 2, cur_val - 1}

\* Sample without the `1 +`: the jitter taken from 0..cur_val as it is
Sample_ZeroBased(cur_val) == GenRange(cur_val)

\* Duration::from_nanos((1 + rng.gen_range(0..cur_val)) as u64)
Sample(cur_val) == { 1 + r : r \in GenRange(cur_val) }

\* Scaled that rounds the product to the nearest nanosecond
Scaled_Rounded(cur_val, multiplier) ==
    (2 * cur_val * multiplier[1] + multiplier[2]) \div (2 * multiplier[2])

\* (cur_val as f64 * self.multiplier) as u64
Scaled(cur_val, multiplier) == (cur_val * multiplier[1]) \div multiplier[2]

\* Capped without the comparison with max
Capped_Unclamped(c, max) == c

\* if self.cur > self.max { self.cur = self.max; }
Capped(c, max) == IF c > max THEN max ELSE c

\* duration whose clamp assigns the other way round: self.max = self.cur
duration_MaxRaised(b) ==
    IF b.cur = 0
    THEN { [kind |-> "panic", d |-> 0, backoff |-> b] }
    ELSE LET c == Scaled(b.cur, b.multiplier)
         IN  { [kind |-> "Some", d |-> d,
                backoff |-> [b EXCEPT !.cur = c,
                                      !.max = IF c > @ THEN c ELSE @]] :
               d \in Sample(b.cur) }

\* The ways a call of duration() on b can end: gen_range panics on the empty
\* range 0..0, before self.cur is assigned; otherwise Some(d) and the new b.
duration(b) ==
    IF b.cur = 0
    THEN { [kind |-> "panic", d |-> 0, backoff |-> b] }
    ELSE { [kind |-> "Some", d |-> d,
            backoff |-> [b EXCEPT !.cur = Capped(Scaled(b.cur, b.multiplier), b.max)]] :
           d \in Sample(b.cur) }

(***************************************************************************)
(* BackoffRetryer::retry                                                   *)
(***************************************************************************)
\* IsUnlistedInternal that also lets the session message through
IsUnlistedInternal_SessionListed(st) ==
    /\ st.code = "Internal"
    /\ ~Contains(st.message, RST_STREAM)
    /\ ~Contains(st.message, INTERNAL_ERROR)
    /\ ~Contains(st.message, UNKNOWN_CAUSE)
    /\ ~Contains(st.message, UNEXPECTED_EOS)
    /\ ~Contains(st.message, SESSION_NOT_FOUND)

\* The first `if`: an Internal status with none of the four messages
IsUnlistedInternal(st) ==
    /\ st.code = "Internal"
    /\ ~Contains(st.message, RST_STREAM)
    /\ ~Contains(st.message, INTERNAL_ERROR)
    /\ ~Contains(st.message, UNKNOWN_CAUSE)
    /\ ~Contains(st.message, UNEXPECTED_EOS)

\* for candidate in self.codes.iter() { if *candidate == code ...
CodeMatches(cs, code) == \E i \in 1..Len(cs) : cs[i] = code

\* SessionNotFound that does not look at the flag
SessionNotFound_FlagIgnored(flag, message) == Contains(message, SESSION_NOT_FOUND)

\* if self.check_session_not_found { if status.message().contains(...)
SessionNotFound(flag, message) == flag /\ Contains(message, SESSION_NOT_FOUND)

\* None after a draw was made and thrown away
None_Drawn(b) ==
    [kind |-> "None", d |-> 0,
     backoff |-> [b EXCEPT !.cur = Capped(Scaled(b.cur, b.multiplier), b.max)]]

\* return None: the Backoff is not touched
None(b) == [kind |-> "None", d |-> 0, backoff |-> b]

\* retry whose codes loop does not return: a status that matches the codes
\* and the session check draws twice
retry_Compounding(b, cs, flag, st) ==
    IF IsUnlistedInternal(st) THEN { None(b) }
    ELSE IF CodeMatches(cs, st.code) /\ SessionNotFound(flag, st.message)
         THEN UNION { IF o.kind = "Some" THEN duration(o.backoff) ELSE {o} :
                      o \in duration(b) }
    ELSE IF CodeMatches(cs, st.code) THEN duration(b)
    ELSE IF SessionNotFound(flag, st.message) THEN duration(b)
    ELSE { None(b) }

retry(b, cs, flag, st) ==
    IF IsUnlistedInternal(st) THEN { None(b) }
    ELSE IF CodeMatches(cs, st.code) THEN duration(b)
    ELSE IF SessionNotFound(flag, st.message) THEN duration(b)
    ELSE { None(b) }

(***************************************************************************)
(* The state machine: one BackoffRetryer and the calls made on it.         *)
(***************************************************************************)
\* No clone has been made.
NoClone == [made |-> FALSE]

Init ==
    /\ backoff \in Backoff \cup {Default}
    /\ codes \in CodeVecs
    /\ check_session_not_found \in BOOLEAN
    /\ op = "new"
    /\ status = NoStatus
    /\ result = [kind |-> "none", d |-> 0]
    /\ draws = 0
    /\ start = backoff
    /\ clone = NoClone

\* A panic unwinds out of the retry loop: no further call is made.
Running == result.kind # "panic" /\ draws < MaxDraws

Finish(o) ==
    /\ backoff' = o.backoff
    /\ result' = [kind |-> o.kind, d |-> o.d]
    /\ draws' = IF o.kind = "Some" THEN draws + 1 ELSE draws
    /\ UNCHANGED <<codes, check_session_not_found, start, clone>>

\* self.backoff.duration(), called on its own
Duration ==
    /\ Running
    /\ \E o \in duration(backoff) : Finish(o)
    /\ op' = "duration"
    /\ status' = NoStatus

\* retryer.retry(&status)
Retry ==
    /\ Running
    /\ \E st \in Status :
         /\ \E o \in retry(backoff, codes, check_session_not_found, st) : Finish(o)
         /\ status' = st
    /\ op' = "retry"

Next == Duration \/ Retry

Spec == Init /\ [][Next]_vars

\* The invocation loop keeps calling while the retryer answers.
FairSpec == Spec /\ WF_vars(Duration) /\ WF_vars(Retry)

(***************************************************************************)
(* A retryer and its clone, each used by its own retry loop.  The clone's  *)
(* codes and check_session_not_found are copies that no call writes, so    *)
(* the variables of the original stand for them.                           *)
(***************************************************************************)
\* #[derive(Clone)]: the clone gets a copy of every field of the Backoff
CloneOf(b) ==
    [made |-> TRUE, backoff |-> b, start |-> b, draws |-> 0, kind |-> "none"]

\* retryer.clone()
Clone ==
    /\ ~clone.made
    /\ clone' = CloneOf(backoff)
    /\ UNCHANGED <<backoff, codes, check_session_not_found, op, status,
                   result, draws, start>>

CloneRunning ==
    /\ clone.made
    /\ clone.kind # "panic"
    /\ clone.draws < MaxCloneDraws

\* CloneFinish for a clone that shares the Backoff of the original
CloneFinish_Aliased(o) ==
    /\ clone' = [clone EXCEPT !.backoff = o.backoff, !.kind = o.kind,
                              !.draws = IF o.kind = "Some" THEN @ + 1 ELSE @]
    /\ backoff' = o.backoff
    /\ UNCHANGED <<codes, check_session_not_found, op, status,
                   result, draws, start>>

\* A call on the clone writes the clone's own Backoff
CloneFinish(o) ==
    /\ clone' = [clone EXCEPT !.backoff = o.backoff, !.kind = o.kind,
                              !.draws = IF o.kind = "Some" THEN @ + 1 ELSE @]
    /\ UNCHANGED <<backoff, codes, check_session_not_found, op, status,
                   result, draws, start>>

\* clone.backoff.duration()
CloneDuration ==
    /\ CloneRunning
    /\ \E o \in duration(clone.backoff) : CloneFinish(o)

\* clone.retry(&status)
CloneRetry ==
    /\ CloneRunning
    /\ \E st \in Status :
         \E o \in retry(clone.backoff, codes, check_session_not_found, st) :
            CloneFinish(o)

\* The Backoff values of the retryers that get cloned
PairBackoff ==
    { [initial |-> 4, max |-> 10, multiplier |-> f, cur |-> c] :
        f \in {<<13, 10>>, <<1, 2>>}, c \in {0, 4, 12} }

InitPair ==
    /\ Init
    /\ backoff \in PairBackoff
    /\ codes = <<"Unavailable", "Internal">>
    /\ check_session_not_found

NextPair == Duration \/ Retry \/ Clone \/ CloneDuration \/ CloneRetry

SpecPair == InitPair /\ [][NextPair]_vars

TypeOK ==
    /\ backoff \in [initial : Nat, max : Nat, multiplier : Nat \X Nat, cur : Nat]
    /\ codes \in CodeVecs
    /\ check_session_not_found \in BOOLEAN
    /\ op \in {"new", "duration", "retry"}
    /\ status \in Status \cup {NoStatus}
    /\ result.kind \in {"none", "None", "Some", "panic"}
    /\ draws \in 0..MaxDraws
    /\ start \in Backoff \cup {Default}
    /\ clone = NoClone \/ clone.made

(***************************************************************************)
(* Properties                                                              *)
(***************************************************************************)
\* The last step called Backoff::duration (directly or from retry).
Drew == result.kind \in {"Some", "panic"}

Allowlist == {RST_STREAM, INTERNAL_ERROR, UNKNOWN_CAUSE, UNEXPECTED_EOS}
Allowlisted(message) == \E pat \in Allowlist : Contains(message, pat)
PassesGate(st) == st.code # "Internal" \/ Allowlisted(st.message)
InCodes(code) == code \in { codes[i] : i \in DOMAIN codes }
HasSession(message) == Contains(message, SESSION_NOT_FOUND)

\* min(floor(c * multiplier), max)
StepOf(b, c) ==
    LET p == (c * b.multiplier[1]) \div b.multiplier[2]
    IN  IF p < b.max THEN p ELSE b.max

\* The envelope n returned draws after the Backoff was b
RECURSIVE EnvelopeAfter(_, _)
EnvelopeAfter(b, n) ==
    IF n = 0 THEN b.cur ELSE StepOf(b, EnvelopeAfter(b, n - 1))

SameConfig(b, c) ==
    /\ b.initial = c.initial
    /\ b.max = c.max
    /\ b.multiplier = c.multiplier

\* C1: every Duration that Backoff::duration returns is at least 1 ns and at
\* most the envelope (cur) the call started from; none is 0.
C1_DurationWithinEnvelope ==
    [][result'.kind = "Some" =>
         /\ 1 <= result'.d
         /\ result'.d <= backoff.cur]_vars

\* A call on a pinned envelope returned the whole envelope.
C1_Witness ==
    /\ op = "duration"
    /\ result.kind = "Some"
    /\ draws >= 2
    /\ result.d = backoff.max

\* C2: with a valid configuration, the first call on a fresh state (cur = 0)
\* samples from the envelope `initial`: it returns a Duration in [1, initial].
C2_FirstDrawFromInitial ==
    [][(ValidConfig(backoff) /\ backoff.cur = 0 /\ draws = 0 /\ Drew') =>
         /\ result'.kind = "Some"
         /\ result'.d \in 1..backoff.initial]_vars

\* C3: with a valid configuration and a fresh state, no call of a sequence
\* ends in a panic.
C3_NoCallAborts ==
    (ValidConfig(backoff) /\ backoff.cur = 0) => result.kind # "panic"

\* C4: retry on an Internal status whose message has none of the four
\* allowlisted substrings returns None, whatever codes and
\* check_session_not_found are and whatever else the message contains.
C4_UnlistedInternalNotRetried ==
    (op = "retry" /\ status.code = "Internal" /\ ~Allowlisted(status.message))
        => result.kind = "None"

\* Internal is in codes, the flag is set and the message names the session.
C4_Witness ==
    /\ op = "retry"
    /\ status = [code |-> "Internal", message |-> "Session not found: abc"]
    /\ InCodes("Internal")
    /\ check_session_not_found
    /\ result.kind = "None"

\* C5: with a valid configuration, retry on a status that passes the Internal
\* gate and whose code is in codes returns Some(d) with d > 0, on a fresh
\* state too.
C5_ListedCodeRetried ==
    (/\ ValidConfig(backoff)
     /\ op = "retry"
     /\ PassesGate(status)
     /\ InCodes(status.code))
        => (result.kind = "Some" /\ result.d > 0)

\* C6: with a valid configuration, retry on a status that passes the Internal
\* gate, whose code is not in codes and whose message contains
\* "Session not found:", returns Some(d) when check_session_not_found is set,
\* on a fresh state too.
C6_SessionNotFoundRetried ==
    (/\ ValidConfig(backoff)
     /\ op = "retry"
     /\ PassesGate(status)
     /\ ~InCodes(status.code)
     /\ check_session_not_found
     /\ HasSession(status.message))
        => result.kind = "Some"

\* C7: retry returns None whenever the code is not in codes and the session
\* heuristic does not fire; Some is returned only if the code is in codes or
\* the heuristic fired.
C7_NoMatchNotRetried ==
    /\ (/\ op = "retry"
        /\ ~InCodes(status.code)
        /\ ~(check_session_not_found /\ HasSession(status.message)))
           => result.kind = "None"
    /\ (op = "retry" /\ result.kind = "Some")
           => \/ InCodes(status.code)
              \/ check_session_not_found /\ HasSession(status.message)

\* The session message with the flag off.
C7_Witness ==
    /\ op = "retry"
    /\ status = [code |-> "NotFound", message |-> "Session not found: abc"]
    /\ ~check_session_not_found
    /\ result.kind = "None"

\* C8: with a valid configuration, once a draw has been made the envelope
\* is within 0..max.
C8_EnvelopeWithinMax ==
    (ValidConfig(backoff) /\ draws >= 1)
        => (0 <= backoff.cur /\ backoff.cur <= backoff.max)

\* A draw has been made and the envelope sits at max.
C8_Witness ==
    /\ ValidConfig(backoff)
    /\ draws >= 1
    /\ backoff.cur = backoff.max

\* C9: with a valid configuration and a fresh state, no call lowers the
\* envelope, every call below max raises it, and a call at max leaves it
\* at max.
C9_EnvelopeGrowsUntilMax ==
    [][(ValidConfig(backoff) /\ backoff.cur = 0 /\ Drew') =>
         /\ backoff'.cur >= backoff.cur
         /\ backoff.cur < backoff.max => backoff'.cur > backoff.cur
         /\ backoff.cur = backoff.max => backoff'.cur = backoff.max]_vars

\* C10: a fresh state with the default configuration, called repeatedly,
\* reaches the envelope 32000000 ns and keeps it.
C10_DefaultReachesMax ==
    (backoff = Default) => <>[](backoff.cur = DefaultMax)

\* C11: a retryer and its clone are independent: under every interleaving
\* of calls on the two, the envelope of each is the one its own Backoff
\* reaches after the number of draws made on it, whatever was done to the
\* other.
C11_CloneIndependent ==
    clone.made =>
        /\ SameConfig(backoff, start)
        /\ backoff.cur = EnvelopeAfter(start, draws)
        /\ SameConfig(clone.backoff, clone.start)
        /\ clone.backoff.cur = EnvelopeAfter(clone.start, clone.draws)

\* The clone was driven to max while the original still has the envelope
\* it was cloned with.
C11_Witness ==
    /\ clone.made
    /\ clone.draws >= 5
    /\ clone.backoff.cur = clone.backoff.max
    /\ draws = 0
    /\ backoff.cur = 4
    /\ backoff.cur < backoff.max

\* C12: a Backoff with a malformed configuration (multiplier <= 1 or
\* max < initial) is rejected when it is constructed: none is ever used to
\* produce a Duration.
C12_MalformedRejected ==
    ~ValidConfig(backoff) => result.kind # "Some"

\* C13: a call of duration that returns replaces the envelope cur by
\* min(floor(cur * multiplier), max): the product is truncated, then
\* clamped.
C13_EnvelopeUpdate ==
    [][result'.kind = "Some" =>
         backoff'.cur = StepOf(backoff, backoff.cur)]_vars

\* 5 ns * 1.30 = 6.5 ns became 6 ns.
C13_Witness ==
    /\ result.kind = "Some"
    /\ backoff.multiplier = <<13, 10>>
    /\ start.cur = 4
    /\ draws = 2
    /\ backoff.cur = 6

\* C14: one retry call that returns Some makes exactly one draw: the
\* envelope advances by one update step, also when the status matches both
\* the codes and the session check.
C14_OneDrawPerRetry ==
    [][(op' = "retry" /\ result'.kind = "Some") =>
         /\ draws' = draws + 1
         /\ backoff'.cur = EnvelopeAfter(backoff, 1)]_vars

\* The first retry matched the codes and the session check, and the
\* envelope is one step, not two, from where it started.
C14_Witness ==
    /\ op = "retry"
    /\ status = [code |-> "Unavailable", message |-> "Session not found: abc"]
    /\ InCodes("Unavailable")
    /\ check_session_not_found
    /\ result.kind = "Some"
    /\ draws = 1
    /\ backoff.cur = EnvelopeAfter(start, 1)
    /\ backoff.cur # EnvelopeAfter(start, 2)

\* C15: a retry call that returns None leaves the Backoff as it was, so the
\* envelope after any sequence of calls is the one the start reaches after
\* as many update steps as Durations were returned.
C15_NoneLeavesBackoff ==
    /\ [][(op' = "retry" /\ result'.kind = "None") => backoff' = backoff]_vars
    /\ [](backoff.cur = EnvelopeAfter(start, draws))

\* A None answer after two draws, on an envelope that has moved.
C15_Witness ==
    /\ op = "retry"
    /\ result.kind = "None"
    /\ draws = 2
    /\ start.cur = 4
    /\ backoff.cur = 6

\* C16: no call changes codes, check_session_not_found, initial, max or
\* multiplier; only cur changes.
C16_ConfigurationUnchanged ==
    [][/\ codes' = codes
       /\ check_session_not_found' = check_session_not_found
       /\ SameConfig(backoff', backoff)]_vars

\* A retry has moved the envelope of a state that started above max.
C16_Witness ==
    /\ op = "retry"
    /\ result.kind = "Some"
    /\ start.cur > start.max
    /\ backoff.cur = start.max
    /\ SameConfig(backoff, start)

\* What retry answers, by the status and the policy alone.
Decision(st) ==
    IF ~PassesGate(st) THEN "None"
    ELSE IF InCodes(st.code) THEN "Some"
    ELSE IF check_session_not_found /\ HasSession(st.message) THEN "Some"
    ELSE "None"

\* C17: with a valid configuration, the answer of retry (Some or None) is a
\* function of the status code, the message, codes and
\* check_session_not_found only, whatever the Backoff state is and however
\* many calls came before.
C17_AnswerByStatusAlone ==
    (ValidConfig(backoff) /\ op = "retry") => result.kind = Decision(status)

\* C18: when the envelope starts at or below max, every Duration returned
\* by any call of the sequence is at most max.
C18_DurationWithinMax ==
    (start.cur <= start.max /\ result.kind = "Some") => result.d <= start.max

\* The envelope is pinned at max and a call returned the whole of it.
C18_Witness ==
    /\ start.cur < start.max
    /\ result.kind = "Some"
    /\ result.d = start.max
====
